---- MODULE Spec2Model ----
(***************************************************************************)
(* rc-protocols: the SBUS decoder (src/src/sbus.rs) and the CPPM frame     *)
(* builder and timer-driven writer (src/src/cppm.rs) as state machines.    *)
(*                                                                         *)
(* Spec        the SBUS decoder with a UART producer and a frame consumer  *)
(* SpecCppm    the CPPM writer driven by timer expiries                    *)
(* SpecDecode  decode_channels on a range of payloads                      *)
(* SpecFrame   PpmFrame::from_channels on a range of channel vectors       *)
(* SpecStream  a given byte stream split in any way over process() calls   *)
(***************************************************************************)
EXTENDS Integers, Sequences, FiniteSets, TLC

VARIABLES
    \* ---- SbusDecoder (sbus.rs:45-51) ----
    byte_rx,          \* input channel: FIFO of Result<u8, E>
    result_tx,        \* output channel: FIFO of RecoverableResult<SbusFrame, E>
    state,            \* DecoderState: [tag, bytes]
    current_message,  \* SbusFrame being assembled
    failsafe,         \* failsafe flag of the decoder
    \* ---- the process() call ----
    ret,              \* what the last process() call returned; Pending inside its loop
    \* ---- the UART transmitter feeding byte_rx ----
    tx_frame,         \* the 25 bytes of the frame being transmitted
    tx_pos,           \* how many of them are already enqueued
    tx_frames,        \* frames started so far
    glitches,         \* stray items enqueued so far
    \* ---- observers (history variables, never read by the decoder) ----
    rx_since_header,  \* bytes consumed since the last accepted header
    sync_src,         \* how WaitForHeader was last entered
    frame_src,        \* sync_src at the time the last header was accepted
    emitted,          \* TRUE once the output channel has accepted a message
    \* ---- CppmWriter (cppm.rs:53-64) and its timer ----
    pin,              \* level of the output pin
    index,            \* index of the next signal to send
    is_low,
    current_frame,    \* PpmFrame: [signal_timings, frame_padding]
    time_300us,
    timer,            \* the duration last passed to timer.start
    \* ---- observers of the writer ----
    calls,            \* on_timer calls so far
    n_low, n_chan, n_pad,   \* pulses started so far, by kind
    cycle_sum,        \* sum of the durations started in the current frame cycle
    cycle_done,       \* TRUE right after the frame-padding pulse was started
    cycle_src,        \* the frame the current cycle is expected to play
    last_kind,        \* kind of the pulse last started
    \* ---- PpmFrame::from_channels (cppm.rs:21-50) ----
    in_channels,      \* the channel values last given to from_channels
    ppm_frame,        \* the PpmFrame it returned
    \* ---- the byte stream fed to the decoder (observers) ----
    script,           \* the items the UART delivers, in order
    pos,              \* how many of them were enqueued so far
    sent,             \* every message the output channel has accepted, in order
    overflowed,       \* TRUE once an emission found the output channel full
    call_start,       \* items consumed before the current process() call
    call_avail,       \* items in byte_rx when the current process() call started
    call_clean        \* FALSE once an item was enqueued during the current call

sbus_vars == <<byte_rx, result_tx, state, current_message, failsafe, ret,
               tx_frame, tx_pos, tx_frames, glitches,
               rx_since_header, sync_src, frame_src, emitted>>
cppm_vars == <<pin, index, is_low, current_frame, time_300us, timer,
               calls, n_low, n_chan, n_pad, cycle_sum, cycle_done, cycle_src, last_kind>>
frame_vars == <<in_channels, ppm_frame>>
stream_vars == <<script, pos, sent, overflowed, call_start, call_avail, call_clean>>
aux_vars == <<frame_vars, stream_vars>>
vars == <<sbus_vars, cppm_vars, aux_vars>>

(***************************************************************************)
(* Constants of sbus.rs                                                    *)
(***************************************************************************)
HEADER_BYTE == 15
FOOTER_BYTE == 0
CHANNEL_AMOUNT == 16
CHANNEL_BYTE_COUNT == 22
\* Capacities of the two heapless queues (U25, U1)
BYTE_RX_CAPACITY == 25
RESULT_TX_CAPACITY == 1

(***************************************************************************)
(* Bounds of the model                                                     *)
(***************************************************************************)
\* frames the transmitter starts
MaxFrames == 2
\* stray items (noise bytes, transport errors) the UART inserts
MaxGlitches == 1
\* items the producer lets pile up in byte_rx before the decoder runs
MaxPending == 1

(***************************************************************************)
(* Fixed-width arithmetic                                                  *)
(***************************************************************************)
RECURSIVE Pow2(_)
Pow2(n) == IF n = 0 THEN 1 ELSE 2 * Pow2(n - 1)

RECURSIVE BitAnd(_, _)
BitAnd(a, b) ==
    IF a = 0 \/ b = 0 THEN 0
    ELSE (a % 2) * (b % 2) + 2 * BitAnd(a \div 2, b \div 2)

RECURSIVE BitOr(_, _)
BitOr(a, b) ==
    IF a = 0 THEN b
    ELSE IF b = 0 THEN a
    ELSE (IF a % 2 = 1 \/ b % 2 = 1 THEN 1 ELSE 0) + 2 * BitOr(a \div 2, b \div 2)

\* x << n and x >> n on an unsigned integer of w bits
Shl(x, n, w) == (x * Pow2(n)) % Pow2(w)
Shr(x, n) == x \div Pow2(n)
Min(a, b) == IF a < b THEN a ELSE b

(***************************************************************************)
(* Values                                                                  *)
(***************************************************************************)
SbusFrameDefault ==
    [channels |-> [i \in 1..16 |-> 0], digital_channels |-> <<FALSE, FALSE>>]

\* RecoverableResult<SbusFrame, E>: an Ok frame or one of the Error variants
MsgOk(frame) == [kind |-> "Ok", frame |-> frame, e |-> 0]
MsgFailsafe(frame) == [kind |-> "Failsafe", frame |-> frame, e |-> 0]
MsgMissingFooter == [kind |-> "MissingFooter", frame |-> SbusFrameDefault, e |-> 0]
MsgMissingHeader == [kind |-> "MissingHeader", frame |-> SbusFrameDefault, e |-> 0]
MsgByteReadError(e) == [kind |-> "ByteReadError", frame |-> SbusFrameDefault, e |-> e]

\* ProcessingResult<(), E>; "None" before the first call, "Pending" while the
\* call has not returned
RetNone == [kind |-> "None", msg |-> MsgMissingHeader, byte |-> 0]
RetPending == [kind |-> "Pending", msg |-> MsgMissingHeader, byte |-> 0]
RetOk == [kind |-> "Ok", msg |-> MsgMissingHeader, byte |-> 0]
ResultTxFull(message) == [kind |-> "ResultTxFull", msg |-> message, byte |-> 0]
VecFull(byte) == [kind |-> "VecFull", msg |-> MsgMissingHeader, byte |-> byte]

\* DecoderState
WaitForHeader == [tag |-> "WaitForHeader", bytes |-> <<>>]
Channel(previous_bytes) == [tag |-> "Channel", bytes |-> previous_bytes]
WaitForFooter == [tag |-> "WaitForFooter", bytes |-> <<>>]
Recover == [tag |-> "Recover", bytes |-> <<>>]

\* An item of the input channel: Ok(byte) or Err(e)
ByteOk(b) == [ok |-> TRUE, v |-> b]
ByteErr(e) == [ok |-> FALSE, v |-> e]

(***************************************************************************)
(* decode_channels, decode_digital_byte                                    *)
(***************************************************************************)
\* decode_channel with the bug of never reading a third byte
decode_channel_two_bytes(bytes, channel) ==
    LET offset == channel * 11
        first_byte_offset == offset % 8
        first_byte_index == offset \div 8
        bits_from_next_bytes == 11 - (8 - first_byte_offset)
        first_byte_mask == Shl(255, first_byte_offset, 8)
        second_byte_mask == Shr(255, 8 - Min(bits_from_next_bytes, 8))
        from_first_byte ==
            Shr(BitAnd(bytes[first_byte_index + 1], first_byte_mask), first_byte_offset)
        from_second_byte ==
            Shl(BitAnd(bytes[1 + first_byte_index + 1], second_byte_mask),
                8 - first_byte_offset, 16)
    IN  BitOr(from_first_byte, from_second_byte)

\* one round of the loop of decode_channels: the value stored in
\* message.channels[channel]
decode_channel(bytes, channel) ==
    LET offset == channel * 11
        first_byte_offset == offset % 8
        first_byte_index == offset \div 8
        bits_from_next_bytes == 11 - (8 - first_byte_offset)
        first_byte_mask == Shl(255, first_byte_offset, 8)
        second_byte_mask == Shr(255, 8 - Min(bits_from_next_bytes, 8))
        from_first_byte ==
            Shr(BitAnd(bytes[first_byte_index + 1], first_byte_mask), first_byte_offset)
        from_second_byte ==
            Shl(BitAnd(bytes[1 + first_byte_index + 1], second_byte_mask),
                8 - first_byte_offset, 16)
        from_third_byte ==
            IF bits_from_next_bytes > 8
            THEN LET bits_from_third_byte == bits_from_next_bytes - 8
                     third_byte_mask == Shr(255, 8 - bits_from_third_byte)
                 IN  Shl(BitAnd(bytes[2 + first_byte_index + 1], third_byte_mask),
                         11 - bits_from_third_byte, 16)
            ELSE 0
    IN  BitOr(BitOr(from_first_byte, from_second_byte), from_third_byte)

decode_channels(message, bytes) ==
    [message EXCEPT !.channels =
        [i \in 1..CHANNEL_AMOUNT |-> decode_channel(bytes, i - 1)]]

\* returns the updated message and whether Err(Failsafe) was returned
decode_digital_byte(message, byte) ==
    [message |-> [message EXCEPT !.digital_channels =
                      << BitAnd(byte, 1) # 0, BitAnd(byte, 2) # 0 >>],
     failsafe |-> BitAnd(byte, 4) # 0]

(***************************************************************************)
(* SbusDecoder: the handlers.  self is the decoder's own data,             *)
(* [state, current_message, failsafe, result_tx]; a handler returns the    *)
(* updated self, the Result it returns (res) and, when res is Ok, the      *)
(* DecoderState it hands back (new_state).                                 *)
(***************************************************************************)
\* Capacity of the payload buffer Vec<u8, U22>
VEC_CAPACITY == 22

\* try_send_message with the bug of leaving the decoder state as it is when
\* the output channel is full
try_send_message_keeps_state(self, message) ==
    IF Len(self.result_tx) >= RESULT_TX_CAPACITY
    THEN [self |-> self, res |-> ResultTxFull(message), new_state |-> self.state]
    ELSE [self |-> [self EXCEPT !.result_tx = Append(@, message)],
          res |-> RetOk, new_state |-> self.state]

try_send_message(self, message) ==
    IF Len(self.result_tx) >= RESULT_TX_CAPACITY
    THEN [self |-> [self EXCEPT !.state = Recover],
          res |-> ResultTxFull(message), new_state |-> Recover]
    ELSE [self |-> [self EXCEPT !.result_tx = Append(@, message)],
          res |-> RetOk, new_state |-> self.state]

\* recover_state with the bug of resynchronizing on the header byte
recover_state_on_header(self, byte) ==
    IF byte = HEADER_BYTE
    THEN [self |-> self, res |-> RetOk, new_state |-> WaitForHeader]
    ELSE [self |-> self, res |-> RetOk, new_state |-> Recover]

\* recover_state with the bug of taking a 0x0F seen in Recover as a header
recover_state_takes_header(self, byte) ==
    IF byte = FOOTER_BYTE
    THEN [self |-> self, res |-> RetOk, new_state |-> WaitForHeader]
    ELSE IF byte = HEADER_BYTE
    THEN [self |-> self, res |-> RetOk, new_state |-> Channel(<<>>)]
    ELSE [self |-> self, res |-> RetOk, new_state |-> Recover]

recover_state(self, byte) ==
    IF byte = FOOTER_BYTE
    THEN [self |-> self, res |-> RetOk, new_state |-> WaitForHeader]
    ELSE [self |-> self, res |-> RetOk, new_state |-> Recover]

\* wait_for_footer_state with the bug of waiting for the next header, instead
\* of recovering, after a missing footer
wait_for_footer_state_no_recover(self, byte) ==
    IF byte = FOOTER_BYTE
    THEN IF ~self.failsafe
         THEN LET r == try_send_message(self, MsgOk(self.current_message))
              IN  IF r.res.kind = "Ok"
                  THEN [r EXCEPT !.new_state = WaitForHeader]
                  ELSE r
         ELSE LET to_send == MsgFailsafe(self.current_message)
                  r == try_send_message([self EXCEPT !.failsafe = FALSE], to_send)
              IN  IF r.res.kind = "Ok"
                  THEN [r EXCEPT !.new_state = WaitForHeader]
                  ELSE r
    ELSE LET r == try_send_message(self, MsgMissingFooter)
         IN  IF r.res.kind = "Ok"
             THEN [r EXCEPT !.new_state = WaitForHeader]
             ELSE r

wait_for_footer_state(self, byte) ==
    IF byte = FOOTER_BYTE
    THEN IF ~self.failsafe
         THEN LET r == try_send_message(self, MsgOk(self.current_message))
              IN  IF r.res.kind = "Ok"
                  THEN [r EXCEPT !.new_state = WaitForHeader]
                  ELSE r
         ELSE LET to_send == MsgFailsafe(self.current_message)
                  r == try_send_message([self EXCEPT !.failsafe = FALSE], to_send)
              IN  IF r.res.kind = "Ok"
                  THEN [r EXCEPT !.new_state = WaitForHeader]
                  ELSE r
    ELSE LET r == try_send_message(self, MsgMissingFooter)
         IN  IF r.res.kind = "Ok"
             THEN [r EXCEPT !.new_state = Recover]
             ELSE r

\* channel_state with the bug of still expecting a payload byte when 22 are
\* buffered (<= for <)
channel_state_off_by_one(self, byte, previous_bytes) ==
    IF Len(previous_bytes) <= CHANNEL_BYTE_COUNT
    THEN IF Len(previous_bytes) >= VEC_CAPACITY
         THEN [self |-> [self EXCEPT !.state = Recover],
               res |-> VecFull(byte), new_state |-> Recover]
         ELSE [self |-> self, res |-> RetOk,
               new_state |-> Channel(Append(previous_bytes, byte))]
    ELSE LET decoded == decode_channels(self.current_message, previous_bytes)
             digital == decode_digital_byte(decoded, byte)
         IN  [self |-> [self EXCEPT !.current_message = digital.message,
                                    !.failsafe = IF digital.failsafe THEN TRUE ELSE @],
              res |-> RetOk, new_state |-> WaitForFooter]

channel_state(self, byte, previous_bytes) ==
    IF Len(previous_bytes) < CHANNEL_BYTE_COUNT
    THEN IF Len(previous_bytes) >= VEC_CAPACITY
         THEN [self |-> [self EXCEPT !.state = Recover],
               res |-> VecFull(byte), new_state |-> Recover]
         ELSE [self |-> self, res |-> RetOk,
               new_state |-> Channel(Append(previous_bytes, byte))]
    ELSE LET decoded == decode_channels(self.current_message, previous_bytes)
             digital == decode_digital_byte(decoded, byte)
         IN  [self |-> [self EXCEPT !.current_message = digital.message,
                                    !.failsafe = IF digital.failsafe THEN TRUE ELSE @],
              res |-> RetOk, new_state |-> WaitForFooter]

\* wait_for_header with the bug of skipping a 0x00 that comes before the header
wait_for_header_skips_footer(self, byte) ==
    IF byte = HEADER_BYTE
    THEN [self |-> self, res |-> RetOk, new_state |-> Channel(<<>>)]
    ELSE IF byte = FOOTER_BYTE
    THEN [self |-> self, res |-> RetOk, new_state |-> WaitForHeader]
    ELSE LET r == try_send_message(self, MsgMissingHeader)
         IN  IF r.res.kind = "Ok"
             THEN [r EXCEPT !.new_state = Recover]
             ELSE r

wait_for_header(self, byte) ==
    IF byte = HEADER_BYTE
    THEN [self |-> self, res |-> RetOk, new_state |-> Channel(<<>>)]
    ELSE LET r == try_send_message(self, MsgMissingHeader)
         IN  IF r.res.kind = "Ok"
             THEN [r EXCEPT !.new_state = Recover]
             ELSE r

\* The match on self.state of process(), for an error-free byte
dispatch(self, byte) ==
    CASE self.state.tag = "WaitForHeader" -> wait_for_header(self, byte)
      [] self.state.tag = "Channel" -> channel_state(self, byte, self.state.bytes)
      [] self.state.tag = "WaitForFooter" -> wait_for_footer_state(self, byte)
      [] self.state.tag = "Recover" -> recover_state(self, byte)

\* process_item with the bug of not entering Recover on a transport error
process_item_no_recover(self, item) ==
    IF ~item.ok
    THEN LET r == try_send_message(self, MsgByteReadError(item.v))
         IN  IF r.res.kind = "Ok"
             THEN [self |-> r.self, res |-> RetPending]
             ELSE [self |-> r.self, res |-> r.res]
    ELSE LET r == dispatch(self, item.v)
         IN  IF r.res.kind = "Ok"
             THEN [self |-> [r.self EXCEPT !.state = r.new_state], res |-> RetPending]
             ELSE [self |-> r.self, res |-> r.res]

\* process_item with the bug of leaving the loop (break Ok(())) instead of
\* going on (continue) after a transport error
process_item_breaks_on_error(self, item) ==
    IF ~item.ok
    THEN LET r == try_send_message([self EXCEPT !.state = Recover],
                                   MsgByteReadError(item.v))
         IN  IF r.res.kind = "Ok"
             THEN [self |-> r.self, res |-> RetOk]
             ELSE [self |-> r.self, res |-> r.res]
    ELSE LET r == dispatch(self, item.v)
         IN  IF r.res.kind = "Ok"
             THEN [self |-> [r.self EXCEPT !.state = r.new_state], res |-> RetPending]
             ELSE [self |-> r.self, res |-> r.res]

\* One iteration of the loop of process() on the dequeued item: the updated
\* self, and res = RetPending when the loop continues, else the fatal error
\* the call returns.
process_item(self, item) ==
    IF ~item.ok
    THEN LET r == try_send_message([self EXCEPT !.state = Recover],
                                   MsgByteReadError(item.v))
         IN  IF r.res.kind = "Ok"
             THEN [self |-> r.self, res |-> RetPending]
             ELSE [self |-> r.self, res |-> r.res]
    ELSE LET r == dispatch(self, item.v)
         IN  IF r.res.kind = "Ok"
             THEN [self |-> [r.self EXCEPT !.state = r.new_state], res |-> RetPending]
             ELSE [self |-> r.self, res |-> r.res]

\* SbusDecoder::new
NewDecoder ==
    [state |-> WaitForHeader, current_message |-> SbusFrameDefault,
     failsafe |-> FALSE, result_tx |-> <<>>]

Self ==
    [state |-> state, current_message |-> current_message,
     failsafe |-> failsafe, result_tx |-> result_tx]

\* process() run to its return on the queue contents, nothing being enqueued
\* meanwhile: the updated self, the value returned, and what is left unread
RECURSIVE process(_, _)
\* process() with the bug of starting every call in WaitForHeader, the state
\* held by the call instead of the decoder
process_fresh_state(self, queue) ==
    IF queue = <<>>
    THEN [self |-> self, res |-> RetOk, byte_rx |-> <<>>]
    ELSE LET r == process_item([self EXCEPT !.state = WaitForHeader], Head(queue))
         IN  IF r.res.kind = "Pending"
             THEN process(r.self, Tail(queue))
             ELSE [self |-> r.self, res |-> r.res, byte_rx |-> Tail(queue)]

process(self, queue) ==
    IF queue = <<>>
    THEN [self |-> self, res |-> RetOk, byte_rx |-> <<>>]
    ELSE LET r == process_item(self, Head(queue))
         IN  IF r.res.kind = "Pending"
             THEN process(r.self, Tail(queue))
             ELSE [self |-> r.self, res |-> r.res, byte_rx |-> Tail(queue)]

\* The harness of the tests with a draining consumer: each item is enqueued,
\* process() is called and the output channel is emptied into out (a fatal
\* error ends the run)
RECURSIVE feed(_, _, _)
feed(self, items, out) ==
    IF items = <<>>
    THEN [self |-> self, out |-> out]
    ELSE LET r == process([self EXCEPT !.result_tx = <<>>], <<Head(items)>>)
         IN  IF r.res.kind = "Ok"
             THEN feed(r.self, Tail(items), out \o r.self.result_tx)
             ELSE [self |-> r.self, out |-> out]

(***************************************************************************)
(* Observers of one loop iteration                                         *)
(***************************************************************************)
\* bytes consumed since the last accepted header (payload, flags, footer);
\* forgotten at the next byte consumed outside a frame
NextRxSinceHeader(item) ==
    IF ~item.ok THEN rx_since_header
    ELSE CASE state.tag = "WaitForHeader" -> <<>>
           [] state.tag = "Recover" -> <<>>
           [] OTHER -> Append(rx_since_header, item.v)

NextSyncSrc(item, after) ==
    IF after.tag = "WaitForHeader" /\ item.ok
    THEN (IF state.tag = "Recover" THEN "recover" ELSE "footer")
    ELSE sync_src

NextFrameSrc(item, after) ==
    IF state.tag = "WaitForHeader" /\ after.tag = "Channel" THEN sync_src ELSE frame_src

\* One iteration of the loop of process() with an item in the queue
Iterate ==
    /\ byte_rx # <<>>
    /\ LET item == Head(byte_rx)
           r == process_item(Self, item)
       IN  /\ byte_rx' = Tail(byte_rx)
           /\ state' = r.self.state
           /\ current_message' = r.self.current_message
           /\ failsafe' = r.self.failsafe
           /\ result_tx' = r.self.result_tx
           /\ ret' = r.res
           /\ rx_since_header' = NextRxSinceHeader(item)
           /\ sync_src' = NextSyncSrc(item, r.self.state)
           /\ frame_src' = NextFrameSrc(item, r.self.state)
           /\ emitted' = (emitted \/ Len(r.self.result_tx) > Len(result_tx))
    /\ UNCHANGED <<tx_frame, tx_pos, tx_frames, glitches, cppm_vars>>

\* process(): the dequeued item carries a transport error
ProcessByteReadError ==
    /\ byte_rx # <<>> /\ ~Head(byte_rx).ok
    /\ Iterate
    /\ UNCHANGED aux_vars

ProcessWaitForHeader ==
    /\ byte_rx # <<>> /\ Head(byte_rx).ok /\ state.tag = "WaitForHeader"
    /\ Iterate
    /\ UNCHANGED aux_vars

ProcessChannel ==
    /\ byte_rx # <<>> /\ Head(byte_rx).ok /\ state.tag = "Channel"
    /\ Iterate
    /\ UNCHANGED aux_vars

ProcessWaitForFooter ==
    /\ byte_rx # <<>> /\ Head(byte_rx).ok /\ state.tag = "WaitForFooter"
    /\ Iterate
    /\ UNCHANGED aux_vars

ProcessRecover ==
    /\ byte_rx # <<>> /\ Head(byte_rx).ok /\ state.tag = "Recover"
    /\ Iterate
    /\ UNCHANGED aux_vars

\* process(): the queue is empty, the call returns Ok(())
ReturnOk ==
    /\ byte_rx = <<>>
    /\ ret' = RetOk
    /\ UNCHANGED <<byte_rx, result_tx, state, current_message, failsafe,
                   tx_frame, tx_pos, tx_frames, glitches,
                   rx_since_header, sync_src, frame_src, emitted, cppm_vars>>

ProcessReturnOk ==
    /\ ReturnOk
    /\ UNCHANGED aux_vars

(***************************************************************************)
(* The two ends outside the decoder                                        *)
(***************************************************************************)
WireFrame(payload, flags, footer) == <<HEADER_BYTE>> \o payload \o <<flags, footer>>

PayloadOnes == [i \in 1..CHANNEL_BYTE_COUNT |-> 1]
\* the payloads of tests::sbus_decoder_decodess_single_valid_input and
\* tests::sbus_decoder_detects_failsafes
PayloadTest ==
    << 254, 7, 192, 255, 1, 240, 127, 0, 252, 31, 0,
       255, 7, 192, 255, 1, 240, 127, 0, 252, 31, 0 >>
PayloadFailsafeTest == [PayloadTest EXCEPT ![1] = 255]
\* the frames the transmitter sends: a valid one, a valid one under failsafe,
\* and one that ends without a footer
TxFrames ==
    { WireFrame(PayloadTest, 3, 0),
      WireFrame(PayloadFailsafeTest, 7, 0),
      WireFrame(PayloadOnes, 1, 1) }
TransportErrors == {1, 2}
\* what a glitch on the line inserts: a stray footer or header byte, or a
\* transport error
GlitchItems == {ByteOk(FOOTER_BYTE), ByteOk(HEADER_BYTE)} \cup {ByteErr(e) : e \in TransportErrors}

\* where in a frame a glitch may hit, as the number of its bytes already sent:
\* between frames, after the header, after 10 payload bytes, before the flags
\* byte and before the footer
GlitchPositions == {0, 1, 11, 23, 24}

\* byte_producer.enqueue(Ok(byte)): the first byte of a new frame
UartStartFrame ==
    /\ tx_pos = 0
    /\ tx_frames < MaxFrames
    /\ Len(byte_rx) < MaxPending /\ Len(byte_rx) < BYTE_RX_CAPACITY
    /\ \E frame \in TxFrames :
        /\ tx_frame' = frame
        /\ byte_rx' = Append(byte_rx, ByteOk(frame[1]))
    /\ tx_pos' = 1
    /\ tx_frames' = tx_frames + 1
    /\ UNCHANGED <<result_tx, state, current_message, failsafe, ret, glitches,
                   rx_since_header, sync_src, frame_src, emitted, cppm_vars, aux_vars>>

\* byte_producer.enqueue(Ok(byte)): the next byte of the frame in transmission
UartNextByte ==
    /\ tx_pos > 0
    /\ Len(byte_rx) < MaxPending /\ Len(byte_rx) < BYTE_RX_CAPACITY
    /\ byte_rx' = Append(byte_rx, ByteOk(tx_frame[tx_pos + 1]))
    /\ IF tx_pos + 1 = Len(tx_frame)
       THEN tx_pos' = 0 /\ tx_frame' = <<>>
       ELSE tx_pos' = tx_pos + 1 /\ tx_frame' = tx_frame
    /\ UNCHANGED <<result_tx, state, current_message, failsafe, ret,
                   tx_frames, glitches,
                   rx_since_header, sync_src, frame_src, emitted, cppm_vars, aux_vars>>

\* byte_producer.enqueue(item): a stray byte or a transport error
UartGlitch ==
    /\ glitches < MaxGlitches
    /\ tx_pos \in GlitchPositions
    /\ Len(byte_rx) < MaxPending /\ Len(byte_rx) < BYTE_RX_CAPACITY
    /\ \E item \in GlitchItems : byte_rx' = Append(byte_rx, item)
    /\ glitches' = glitches + 1
    /\ UNCHANGED <<result_tx, state, current_message, failsafe, ret,
                   tx_frame, tx_pos, tx_frames,
                   rx_since_header, sync_src, frame_src, emitted, cppm_vars, aux_vars>>

\* message_consumer.dequeue()
ConsumerDequeue ==
    /\ result_tx # <<>>
    /\ result_tx' = Tail(result_tx)
    /\ UNCHANGED <<byte_rx, state, current_message, failsafe, ret,
                   tx_frame, tx_pos, tx_frames, glitches,
                   rx_since_header, sync_src, frame_src, emitted, cppm_vars, aux_vars>>

(***************************************************************************)
(* cppm.rs: constants, PpmFrame::from_channels                             *)
(***************************************************************************)
\* All timings are expressed in microseconds
FRAME_TIME == 22000
MIN_TIME == 690
MAX_TIME == 1710
SEPARATION == 300
CHANNEL_COUNT == 8

\* the caller's us_to_time closure: the timer counts microseconds
us_to_time(us) == us

\* channel_time with the bug of scaling by MAX_TIME instead of the span
\* MAX_TIME - MIN_TIME
channel_time_full_scale(channel) ==
    MIN_TIME + ((MAX_TIME * channel[1]) \div channel[2])

\* A channel value in [0,1] is a rational <<n, d>>, 0 <= n <= d, d > 0.
\* MIN_TIME + ((MAX_TIME - MIN_TIME) as f32 * channel) as u32: the cast truncates
\* (the product taken exactly; f32 rounding of it is not modelled)
channel_time(channel) ==
    MIN_TIME + (((MAX_TIME - MIN_TIME) * channel[1]) \div channel[2])

RECURSIVE total_time_upto_no_separation(_, _)
\* total_time with the bug of leaving the separator pulses out of the sum
total_time_upto_no_separation(channels, i) ==
    IF i = 0 THEN 0
    ELSE total_time_upto_no_separation(channels, i - 1) + channel_time(channels[i])

RECURSIVE total_time_upto(_, _)
\* total_time after the first i rounds of the loop of from_channels
total_time_upto(channels, i) ==
    IF i = 0 THEN 0
    ELSE total_time_upto(channels, i - 1) + SEPARATION + channel_time(channels[i])

\* FRAME_TIME - total_time is a u32 subtraction; a negative value here stands
\* for its underflow (channels in [0,1] keep every u32 sum far below 2^32)
from_channels(channels) ==
    [signal_timings |-> [i \in 1..CHANNEL_COUNT |-> us_to_time(channel_time(channels[i]))],
     frame_padding |->
        us_to_time(FRAME_TIME - total_time_upto(channels, CHANNEL_COUNT))]

(***************************************************************************)
(* CppmWriter.  self is [pin, index, is_low, current_frame, time_300us];   *)
(* on_timer returns the updated self and the duration given to             *)
(* timer.start.                                                            *)
(***************************************************************************)
NewWriter(initial_frame, t300) ==
    [pin |-> "high", index |-> 0, is_low |-> FALSE,
     current_frame |-> initial_frame, time_300us |-> t300]

\* on_timer with the bug of ending the frame one channel early
on_timer_seven_channels(self, next_frame) ==
    IF self.is_low
    THEN IF self.index = CHANNEL_COUNT - 1
         THEN [self |-> [self EXCEPT !.pin = "high",
                                     !.current_frame = next_frame,
                                     !.index = 0,
                                     !.is_low = FALSE],
               start |-> self.current_frame.frame_padding]
         ELSE [self |-> [self EXCEPT !.pin = "high",
                                     !.index = @ + 1,
                                     !.is_low = FALSE],
               start |-> self.current_frame.signal_timings[self.index + 1]]
    ELSE [self |-> [self EXCEPT !.pin = "low", !.is_low = TRUE],
          start |-> self.time_300us]

\* on_timer with the bug of copying next_frame before the frame padding is
\* loaded into the timer
on_timer_swaps_first(self, next_frame) ==
    IF self.is_low
    THEN IF self.index = CHANNEL_COUNT
         THEN [self |-> [self EXCEPT !.pin = "high",
                                     !.current_frame = next_frame,
                                     !.index = 0,
                                     !.is_low = FALSE],
               start |-> next_frame.frame_padding]
         ELSE [self |-> [self EXCEPT !.pin = "high",
                                     !.index = @ + 1,
                                     !.is_low = FALSE],
               start |-> self.current_frame.signal_timings[self.index + 1]]
    ELSE [self |-> [self EXCEPT !.pin = "low", !.is_low = TRUE],
          start |-> self.time_300us]

\* on_timer with the bug of clearing is_low only after a channel pulse
on_timer_pad_keeps_low(self, next_frame) ==
    IF self.is_low
    THEN IF self.index = CHANNEL_COUNT
         THEN [self |-> [self EXCEPT !.pin = "high",
                                     !.current_frame = next_frame,
                                     !.index = 0],
               start |-> self.current_frame.frame_padding]
         ELSE [self |-> [self EXCEPT !.pin = "high",
                                     !.index = @ + 1,
                                     !.is_low = FALSE],
               start |-> self.current_frame.signal_timings[self.index + 1]]
    ELSE [self |-> [self EXCEPT !.pin = "low", !.is_low = TRUE],
          start |-> self.time_300us]

\* on_timer with the bug of not resetting the index at the frame boundary
on_timer_no_reset(self, next_frame) ==
    IF self.is_low
    THEN IF self.index = CHANNEL_COUNT
         THEN [self |-> [self EXCEPT !.pin = "high",
                                     !.current_frame = next_frame,
                                     !.is_low = FALSE],
               start |-> self.current_frame.frame_padding]
         ELSE [self |-> [self EXCEPT !.pin = "high",
                                     !.index = @ + 1,
                                     !.is_low = FALSE],
               start |-> self.current_frame.signal_timings[self.index + 1]]
    ELSE [self |-> [self EXCEPT !.pin = "low", !.is_low = TRUE],
          start |-> self.time_300us]

on_timer(self, next_frame) ==
    IF self.is_low
    THEN IF self.index = CHANNEL_COUNT
         THEN [self |-> [self EXCEPT !.pin = "high",
                                     !.current_frame = next_frame,
                                     !.index = 0,
                                     !.is_low = FALSE],
               start |-> self.current_frame.frame_padding]
         ELSE [self |-> [self EXCEPT !.pin = "high",
                                     !.index = @ + 1,
                                     !.is_low = FALSE],
               start |-> self.current_frame.signal_timings[self.index + 1]]
    ELSE [self |-> [self EXCEPT !.pin = "low", !.is_low = TRUE],
          start |-> self.time_300us]

Writer ==
    [pin |-> pin, index |-> index, is_low |-> is_low,
     current_frame |-> current_frame, time_300us |-> time_300us]

(***************************************************************************)
(* Bounds and inputs of the writer                                         *)
(***************************************************************************)
\* channel values are the multiples of 1/ChanDenom in [0,1]
ChanDenom == 4
\* on_timer calls explored
MaxCalls == 40

ChannelValues == {<<n, ChanDenom>> : n \in 0..ChanDenom}
UniformChannels(c) == [i \in 1..CHANNEL_COUNT |-> c]
MixedChannels ==
    << <<0, 1>>, <<1, 2>>, <<1, 1>>, <<1, 4>>, <<3, 4>>, <<0, 1>>, <<1, 1>>, <<1, 2>> >>
ChannelVectors == {UniformChannels(c) : c \in ChannelValues} \cup {MixedChannels}
Frames == {from_channels(channels) : channels \in ChannelVectors}

\* which pulse an expiry started, told from the line and the timer: the level
\* the pin went to and, for a high pulse, the duration loaded (a channel pulse
\* is at most MAX_TIME, the frame padding at least FRAME_TIME - 8 * (300 + 1710))
PulseKind(level, duration) ==
    IF level = "low" THEN "low"
    ELSE IF duration > MAX_TIME THEN "pad" ELSE "chan"

\* Timer event handler: one expiry of the count-down timer
OnTimer ==
    /\ calls < MaxCalls
    /\ \E next_frame \in Frames :
        LET r == on_timer(Writer, next_frame)
            kind == PulseKind(r.self.pin, r.start)
        IN  /\ pin' = r.self.pin
            /\ index' = r.self.index
            /\ is_low' = r.self.is_low
            /\ current_frame' = r.self.current_frame
            /\ time_300us' = r.self.time_300us
            /\ timer' = r.start
            /\ calls' = calls + 1
            /\ n_low' = n_low + (IF kind = "low" THEN 1 ELSE 0)
            /\ n_chan' = n_chan + (IF kind = "chan" THEN 1 ELSE 0)
            /\ n_pad' = n_pad + (IF kind = "pad" THEN 1 ELSE 0)
            /\ cycle_sum' = (IF cycle_done THEN 0 ELSE cycle_sum) + r.start
            /\ cycle_done' = (kind = "pad")
            /\ cycle_src' = IF kind = "pad" THEN next_frame ELSE cycle_src
            /\ last_kind' = kind
    /\ UNCHANGED <<sbus_vars, aux_vars>>

(***************************************************************************)
(* Specifications                                                          *)
(***************************************************************************)
InitDecoder ==
    /\ byte_rx = <<>>
    /\ result_tx = NewDecoder.result_tx
    /\ state = NewDecoder.state
    /\ current_message = NewDecoder.current_message
    /\ failsafe = NewDecoder.failsafe
    /\ ret = RetNone
    /\ tx_frame = <<>> /\ tx_pos = 0 /\ tx_frames = 0 /\ glitches = 0
    /\ rx_since_header = <<>> /\ sync_src = "init" /\ frame_src = "init"
    /\ emitted = FALSE

InitWriter(initial_frame) ==
    LET w == NewWriter(initial_frame, SEPARATION)
    IN  /\ pin = w.pin
        /\ index = w.index
        /\ is_low = w.is_low
        /\ current_frame = w.current_frame
        /\ time_300us = w.time_300us
        /\ timer = 0
        /\ calls = 0 /\ n_low = 0 /\ n_chan = 0 /\ n_pad = 0
        /\ cycle_sum = 0 /\ cycle_done = FALSE
        /\ cycle_src = initial_frame
        /\ last_kind = "none"

\* nothing was given to from_channels yet
NoFrame == [signal_timings |-> <<>>, frame_padding |-> 0]

InitAux ==
    /\ in_channels = <<>> /\ ppm_frame = NoFrame
    /\ script = <<>> /\ pos = 0 /\ sent = <<>> /\ overflowed = FALSE
    /\ call_start = 0 /\ call_avail = 0 /\ call_clean = TRUE

Init ==
    /\ InitDecoder
    /\ InitWriter(from_channels(UniformChannels(<<0, 1>>)))
    /\ InitAux

Next ==
    \/ ProcessByteReadError
    \/ ProcessWaitForHeader
    \/ ProcessChannel
    \/ ProcessWaitForFooter
    \/ ProcessRecover
    \/ ProcessReturnOk
    \/ UartStartFrame
    \/ UartNextByte
    \/ UartGlitch
    \/ ConsumerDequeue

Spec == Init /\ [][Next]_vars

InitCppm ==
    /\ InitDecoder
    /\ \E initial_frame \in Frames : InitWriter(initial_frame)
    /\ InitAux

NextCppm == OnTimer

SpecCppm == InitCppm /\ [][NextCppm]_vars

(***************************************************************************)
(* SpecDecode: decode_channels on a range of payloads.  The decoder has    *)
(* taken a header and 22 payload bytes; the flags byte and the footer      *)
(* follow.                                                                 *)
(***************************************************************************)
PayloadBits == CHANNEL_BYTE_COUNT * 8

\* the payload whose only set bit is bit n of the little-endian bitstream
OneHot(n) ==
    [j \in 1..CHANNEL_BYTE_COUNT |-> IF (n \div 8) + 1 = j THEN Pow2(n % 8) ELSE 0]
\* the payload whose only clear bit is bit n
OneCold(n) == [j \in 1..CHANNEL_BYTE_COUNT |-> 255 - OneHot(n)[j]]
ByteFill(b) == [j \in 1..CHANNEL_BYTE_COUNT |-> b]
\* bytes j, j+1, ... counting up from b
Ramp(b) == [j \in 1..CHANNEL_BYTE_COUNT |-> (b + 11 * j) % 256]

Payloads ==
    {OneHot(n) : n \in 0..(PayloadBits - 1)}
    \cup {OneCold(n) : n \in 0..(PayloadBits - 1)}
    \cup {ByteFill(b) : b \in {0, 85, 170, 255}}
    \cup {Ramp(b) : b \in {0, 37, 101, 200}}
    \cup {PayloadTest, PayloadFailsafeTest, PayloadOnes}
DecodeFlags == {0, 3}

\* the frame a decoder that is not fresh has delivered before
StaleFrame ==
    [channels |-> [i \in 1..16 |-> 2047], digital_channels |-> <<TRUE, TRUE>>]

InitDecode ==
    /\ \E payload \in Payloads, flags \in DecodeFlags, fresh \in BOOLEAN :
        /\ state = Channel(payload)
        /\ rx_since_header = payload
        /\ tx_frame = WireFrame(payload, flags, FOOTER_BYTE)
        /\ current_message = (IF fresh THEN SbusFrameDefault ELSE StaleFrame)
        /\ sync_src = (IF fresh THEN "init" ELSE "footer")
        /\ frame_src = (IF fresh THEN "init" ELSE "footer")
        /\ emitted = ~fresh
    /\ tx_pos = 1 + CHANNEL_BYTE_COUNT /\ tx_frames = 1 /\ glitches = 0
    /\ byte_rx = <<>> /\ result_tx = <<>> /\ failsafe = FALSE /\ ret = RetOk
    /\ InitWriter(from_channels(UniformChannels(<<0, 1>>)))
    /\ InitAux

NextDecode ==
    \/ UartNextByte
    \/ ProcessChannel
    \/ ProcessWaitForFooter
    \/ ProcessReturnOk
    \/ ConsumerDequeue

SpecDecode == InitDecode /\ [][NextDecode]_vars

(***************************************************************************)
(* SpecFrame: PpmFrame::from_channels on a range of channel vectors        *)
(***************************************************************************)
\* channel values are the multiples of 1 / 2^DyadicBits in [0,1]: each is an
\* f32 exactly, and so is its product with 1020
DyadicBits == 3

DyadicValues == {<<n, Pow2(DyadicBits)>> : n \in 0..Pow2(DyadicBits)}
\* every vector that holds one value c in one place and a value b elsewhere,
\* and the vector of the spec's round-trip scenario
InputVectors ==
    {[UniformChannels(b) EXCEPT ![k] = c] :
        k \in 1..CHANNEL_COUNT, b \in DyadicValues, c \in DyadicValues}
    \cup {MixedChannels}

\* PpmFrame::from_channels(channels, |us| us)
FromChannels ==
    /\ \E chs \in InputVectors :
        /\ in_channels' = chs
        /\ ppm_frame' = from_channels(chs)
    /\ UNCHANGED <<sbus_vars, cppm_vars, stream_vars>>

InitFrame ==
    /\ InitDecoder
    /\ InitWriter(from_channels(UniformChannels(<<0, 1>>)))
    /\ InitAux

NextFrame == FromChannels

SpecFrame == InitFrame /\ [][NextFrame]_vars

(***************************************************************************)
(* SpecStream: a given byte stream reaches the decoder in any split: the   *)
(* UART enqueues before, between and during process() calls, the consumer  *)
(* dequeues when it likes.                                                 *)
(***************************************************************************)
\* items the producer lets pile up in byte_rx
MaxQueue == 2

OkItems(bytes) == [i \in 1..Len(bytes) |-> ByteOk(bytes[i])]

\* the streams of the tests, and streams with stray bytes and transport errors
Scripts ==
    { \* tests::sbus_decoder_decodess_single_valid_input, twice over
      OkItems(WireFrame(PayloadTest, 3, 0) \o WireFrame(PayloadTest, 3, 0)),
      \* tests::sbus_decoder_detects_incorrect_stop_byte
      OkItems(WireFrame(PayloadOnes, 1, 1) \o <<15, 1, 1, 0>>
              \o WireFrame(PayloadTest, 3, 0)),
      \* tests::sbus_decoder_detects_failsafes, then a frame that loses its
      \* footer, a resynchronization and a valid frame
      OkItems(WireFrame(PayloadFailsafeTest, 7, 0)
              \o <<15>> \o PayloadFailsafeTest \o <<7, 1, 0>>
              \o WireFrame(PayloadTest, 3, 0)),
      \* a transport error inside a frame
      OkItems(<<15, 1, 2, 3>>) \o <<ByteErr(1)>> \o OkItems(<<9, 0>>)
              \o OkItems(WireFrame(PayloadTest, 3, 0)),
      \* noise: missing headers and transport errors in a row
      OkItems(<<1, 0, 1, 0, 0, 15>>) \o <<ByteErr(2), ByteErr(1)>>
              \o OkItems(<<0, 7, 0, 15, 0>>) }

\* items the decoder has dequeued so far
Consumed == pos - Len(byte_rx)

\* byte_producer.enqueue(item): the next item of the stream
StreamEnqueue ==
    /\ pos < Len(script)
    /\ Len(byte_rx) < MaxQueue /\ Len(byte_rx) < BYTE_RX_CAPACITY
    /\ byte_rx' = Append(byte_rx, script[pos + 1])
    /\ pos' = pos + 1
    /\ IF ret.kind = "Pending"
       THEN call_clean' = FALSE /\ call_start' = 0 /\ call_avail' = 0
       ELSE UNCHANGED <<call_clean, call_start, call_avail>>
    /\ UNCHANGED <<result_tx, state, current_message, failsafe, ret,
                   tx_frame, tx_pos, tx_frames, glitches,
                   rx_since_header, sync_src, frame_src, emitted,
                   script, sent, overflowed, cppm_vars, frame_vars>>

\* what a step of process() means for the observers of the call: a step
\* taken when no call is running is the first of a new call (call_start and
\* call_avail are kept only while the call is clean)
ObserveCall ==
    LET starting == ret.kind # "Pending"
    IN  /\ call_start' = (IF starting THEN Consumed ELSE call_start)
        /\ call_avail' = (IF starting THEN Len(byte_rx) ELSE call_avail)
        /\ call_clean' = (IF starting THEN TRUE ELSE call_clean)

\* process(): one iteration of its loop with an item in the queue
StreamIterate ==
    /\ Iterate
    /\ ObserveCall
    /\ sent' = (IF Len(result_tx') > Len(result_tx)
                THEN Append(sent, result_tx'[Len(result_tx')])
                ELSE sent)
    /\ overflowed' = (overflowed \/ ret'.kind = "ResultTxFull")
    /\ UNCHANGED <<script, pos, frame_vars>>

\* process(): the queue is empty, the call returns Ok(())
StreamReturnOk ==
    /\ ReturnOk
    /\ ObserveCall
    /\ UNCHANGED <<script, pos, sent, overflowed, frame_vars>>

InitStream ==
    /\ InitDecoder
    /\ InitWriter(from_channels(UniformChannels(<<0, 1>>)))
    /\ in_channels = <<>> /\ ppm_frame = NoFrame
    /\ script \in Scripts
    /\ pos = 0 /\ sent = <<>> /\ overflowed = FALSE
    /\ call_start = 0 /\ call_avail = 0 /\ call_clean = TRUE

NextStream ==
    \/ StreamEnqueue
    \/ StreamIterate
    \/ StreamReturnOk
    \/ ConsumerDequeue

SpecStream == InitStream /\ [][NextStream]_vars

(***************************************************************************)
(* Reference readings of the wire format, used by the properties           *)
(***************************************************************************)
\* bit n of the payload read as a little-endian bitstream
PayloadBit(payload, n) == (payload[(n \div 8) + 1] \div Pow2(n % 8)) % 2

RECURSIVE FieldValue(_, _, _)
\* the value of the width bits of the payload that start at bit first
FieldValue(payload, first, width) ==
    IF width = 0 THEN 0
    ELSE PayloadBit(payload, first) + 2 * FieldValue(payload, first + 1, width - 1)

FlagBit(flags, n) == (flags \div Pow2(n)) % 2 = 1

\* the SbusFrame a payload and a flags byte stand for
FrameOf(payload, flags) ==
    [channels |-> [k \in 1..16 |-> FieldValue(payload, 11 * (k - 1), 11)],
     digital_channels |-> <<FlagBit(flags, 0), FlagBit(flags, 1)>>]

WirePayload(wire) == SubSeq(wire, 2, 23)
WireFlags(wire) == wire[24]
WellFormedFrames == {wire \in TxFrames : wire[25] = 0}

\* a step of the decoder: one item leaves the input channel
DecoderStep == byte_rx # <<>> /\ byte_rx' = Tail(byte_rx)
ResultTxIsFull == Len(result_tx) >= RESULT_TX_CAPACITY

\* the step emits nothing
EmitsNothing == result_tx' = result_tx /\ ret'.kind = "Pending"
\* the step sends message m: the channel takes it, or it is full and
\* process() returns it in ResultTxFull
Sends(m) ==
    IF ResultTxIsFull
    THEN result_tx' = result_tx /\ ret' = ResultTxFull(m)
    ELSE result_tx' = Append(result_tx, m) /\ ret'.kind = "Pending"

(***************************************************************************)
(* C1                                                                      *)
(***************************************************************************)
\* C1: when the footer 0x00 is received in WaitForFooter, the item emitted is
\* Err(Failsafe(frame)) if bit 2 of that frame's own flags byte is set and
\* Ok(frame) if it is clear, frame being decoded from that frame's payload
\* and flags byte, whatever was processed before.
C1_FooterEmitsByOwnFlags ==
    [][ (DecoderStep /\ state.tag = "WaitForFooter" /\ Head(byte_rx) = ByteOk(0)
            /\ ~ResultTxIsFull)
        => LET payload == SubSeq(rx_since_header, 1, 22)
               flags == rx_since_header[23]
               frame == FrameOf(payload, flags)
           IN  result_tx' = Append(result_tx,
                   IF FlagBit(flags, 2) THEN MsgFailsafe(frame) ELSE MsgOk(frame))
      ]_vars

(***************************************************************************)
(* C2                                                                      *)
(***************************************************************************)
\* what feeding 0x00 and then the well-formed frame wire to the decoder, from
\* its present state and with a draining consumer, emits
ResyncRun(wire) == feed(Self, <<ByteOk(0)>> \o [i \in 1..25 |-> ByteOk(wire[i])], <<>>)

FrameMsg(wire) ==
    IF FlagBit(WireFlags(wire), 2)
    THEN MsgFailsafe(FrameOf(WirePayload(wire), WireFlags(wire)))
    ELSE MsgOk(FrameOf(WirePayload(wire), WireFlags(wire)))

\* the decoder has processed every byte fed so far and the consumer has
\* drained the output channel
Drained == byte_rx = <<>> /\ ret = RetOk /\ result_tx = <<>>

\* C2 (as stated): after any sequence of bytes, feeding 0x00 and a well-formed
\* 25-byte frame makes the decoder deliver that frame.
C2_ResyncFromAnyState ==
    Drained
    => \A wire \in WellFormedFrames :
        LET out == ResyncRun(wire).out
        IN  out # <<>> /\ out[Len(out)] = FrameMsg(wire)

\* C2 (amended): if the bytes fed so far leave the decoder in Recover or in
\* WaitForFooter, feeding 0x00 and a well-formed 25-byte frame makes the
\* decoder emit, as its last item, a message that carries that frame (Ok or
\* Err(Failsafe), Err(Failsafe) whenever the frame's failsafe bit is set), and
\* leaves it in WaitForHeader.
C2_ResyncFromRecover ==
    (Drained /\ state.tag \in {"Recover", "WaitForFooter"})
    => \A wire \in WellFormedFrames :
        LET run == ResyncRun(wire)
            out == run.out
            last == out[Len(out)]
        IN  /\ out # <<>>
            /\ last.kind \in {"Ok", "Failsafe"}
            /\ last.frame = FrameOf(WirePayload(wire), WireFlags(wire))
            /\ FlagBit(WireFlags(wire), 2) => last.kind = "Failsafe"
            /\ Len(out) = (IF state.tag = "WaitForFooter" THEN 2 ELSE 1)
            /\ run.self.state = WaitForHeader

\* the decoder resynchronized on a 0x00 in Recover, then took a whole
\* well-formed frame and delivered it
C2_Witness ==
    /\ frame_src = "recover"
    /\ state = WaitForHeader
    /\ Len(rx_since_header) = 24 /\ rx_since_header[24] = 0
    /\ result_tx # <<>>
    /\ result_tx[1].kind \in {"Ok", "Failsafe"}
    /\ result_tx[1].frame = FrameOf(SubSeq(rx_since_header, 1, 22), rx_since_header[23])

(***************************************************************************)
(* C3                                                                      *)
(***************************************************************************)
\* C3: starting in WaitForHeader with an empty output channel, processing a
\* well-formed 25-byte frame whose flags byte has bit 2 clear makes process()
\* return Ok(()), emits exactly one item, Ok(frame) with the 16 channels the
\* 11-bit fields of the payload and the digital channels bits 0 and 1 of the
\* flags byte, and leaves the decoder in WaitForHeader.
C3_ValidFrameFromWaitForHeader ==
    (state.tag = "WaitForHeader" /\ result_tx = <<>>)
    => \A wire \in WellFormedFrames :
        ~FlagBit(WireFlags(wire), 2)
        => LET run == process(Self, [i \in 1..25 |-> ByteOk(wire[i])])
           IN  /\ run.res = RetOk
               /\ run.self.result_tx
                    = << MsgOk(FrameOf(WirePayload(wire), WireFlags(wire))) >>
               /\ run.self.state = WaitForHeader
               /\ run.byte_rx = <<>>

(***************************************************************************)
(* C4  (SpecCppm)                                                          *)
(***************************************************************************)
\* C4: each CPPM output frame lasts exactly 22 000 us: the durations passed
\* to timer.start over one complete frame cycle (every separator low pulse,
\* the 8 channel high pulses and the frame-padding high pulse) sum to 22 000.
C4_FrameLasts22000 == cycle_done => cycle_sum = FRAME_TIME

(***************************************************************************)
(* C5  (SpecCppm)                                                          *)
(***************************************************************************)
\* C5 (as stated): after 17 consecutive on_timer calls from the initial state
\* exactly 8 separator low pulses, 8 channel high pulses and 1 frame-padding
\* high pulse were started, and the writer is back at index 0.
C5_FrameIn17Calls ==
    calls = 17 => (n_low = 8 /\ n_chan = 8 /\ n_pad = 1 /\ index = 0)

\* C5 (amended): it takes 18 consecutive on_timer calls: after 17 calls 9
\* separator low pulses and 8 channel high pulses were started, no frame
\* padding yet, and the writer is low at index 8; the 18th call starts the
\* frame-padding high pulse and brings the writer back to index 0.
C5_FrameIn18Calls ==
    /\ calls = 17 => (n_low = 9 /\ n_chan = 8 /\ n_pad = 0 /\ index = 8 /\ is_low)
    /\ calls = 18 => (n_low = 9 /\ n_chan = 8 /\ n_pad = 1 /\ index = 0 /\ ~is_low
                      /\ last_kind = "pad" /\ pin = "high")

C5_Witness == calls = 18 /\ n_pad = 1 /\ last_kind = "pad" /\ index = 0

(***************************************************************************)
(* C10  (SpecCppm)                                                         *)
(***************************************************************************)
\* C10: within each frame cycle the eight channel pulse durations and the
\* frame-padding duration loaded into the timer come from one and the same
\* PpmFrame: the initial frame for the first cycle, afterwards the next_frame
\* passed to the on_timer call that started the preceding frame-padding pulse
\* (cycle_src records exactly that); no other next_frame affects a duration.
C10_CycleFromOneFrame ==
    [][ calls' = calls + 1
        => /\ last_kind' = "low" => timer' = SEPARATION
           /\ last_kind' = "chan"
                => timer' = cycle_src.signal_timings[(n_chan % CHANNEL_COUNT) + 1]
           /\ last_kind' = "pad"
                => (timer' = cycle_src.frame_padding /\ n_chan' = CHANNEL_COUNT * n_pad')
           /\ last_kind' # "pad" => current_frame' = current_frame
      ]_vars

\* a second cycle is playing a frame other than the initial one, and the
\* next_frame of the call that started its last channel pulse was yet another
C10_Witness ==
    /\ n_pad = 1 /\ n_chan = 2 * CHANNEL_COUNT /\ last_kind = "chan"
    /\ timer = cycle_src.signal_timings[CHANNEL_COUNT]
    /\ \E f \in Frames : f.signal_timings[CHANNEL_COUNT] # timer

(***************************************************************************)
(* C6                                                                      *)
(***************************************************************************)
\* the messages the decoder has to emit on the item at the head of byte_rx
\* (none or one), by the transition table
Wanted ==
    LET item == Head(byte_rx)
    IN  IF ~item.ok THEN << MsgByteReadError(item.v) >>
        ELSE CASE state.tag = "WaitForHeader" ->
                    IF item.v = 15 THEN <<>> ELSE << MsgMissingHeader >>
               [] state.tag = "WaitForFooter" ->
                    IF item.v # 0 THEN << MsgMissingFooter >>
                    ELSE IF failsafe THEN << MsgFailsafe(current_message) >>
                    ELSE << MsgOk(current_message) >>
               [] OTHER -> <<>>

\* C6: when an emission is attempted while the output channel is full,
\* process() returns ResultTxFull carrying exactly the message that was to be
\* emitted, the output channel is unchanged and the decoder is in Recover;
\* process() returns a fatal error in no other situation: the loop goes on
\* when the emission was accepted or there was none, and the call returns
\* Ok(()) when the input channel is empty.
C6_FatalOnlyWhenFull ==
    [][ /\ DecoderStep
            => IF Wanted # <<>> /\ ResultTxIsFull
               THEN /\ ret' = ResultTxFull(Wanted[1])
                    /\ result_tx' = result_tx
                    /\ state' = Recover
               ELSE /\ ret' = RetPending
                    /\ result_tx' = result_tx \o Wanted
        /\ (byte_rx = <<>> /\ byte_rx' = <<>> /\ ret' # ret) => ret' = RetOk
      ]_vars

\* process() has returned ResultTxFull with the frame it could not emit
C6_Witness ==
    /\ ret.kind = "ResultTxFull"
    /\ ret.msg.kind = "Ok"
    /\ state = Recover
    /\ Len(result_tx) = 1

(***************************************************************************)
(* C7                                                                      *)
(***************************************************************************)
\* C7: in Recover every error-free byte other than 0x00 (0x0F included)
\* leaves the decoder in Recover and emits nothing; 0x00 moves it to
\* WaitForHeader and emits nothing, and only then is the next 0x0F accepted as
\* a header, moving to Channel with an empty buffer.
C7_RecoverWaitsForFooter ==
    [][ (DecoderStep /\ Head(byte_rx).ok)
        => LET byte == Head(byte_rx).v
           IN  /\ (state.tag = "Recover" /\ byte # 0)
                    => (state' = Recover /\ EmitsNothing)
               /\ (state.tag = "Recover" /\ byte = 0)
                    => (state' = WaitForHeader /\ EmitsNothing)
               /\ (state.tag = "WaitForHeader" /\ byte = 15)
                    => (state' = Channel(<<>>) /\ EmitsNothing)
               /\ (state' = Channel(<<>>)) => (state.tag = "WaitForHeader" /\ byte = 15)
      ]_vars

\* a header accepted right after the 0x00 that ended a recovery
C7_Witness ==
    /\ frame_src = "recover"
    /\ state = Channel(<<>>)

(***************************************************************************)
(* C8                                                                      *)
(***************************************************************************)
OnesTimes(n) == [i \in 1..n |-> 1]

\* C8: in WaitForFooter any byte other than 0x00 causes exactly one emission,
\* Err(MissingFooter), no frame, and moves the decoder to Recover; in
\* particular 0x0F followed by 24 bytes 0x01 from the initial state emits
\* exactly Err(MissingFooter).
C8_MissingFooter ==
    [][ (DecoderStep /\ Head(byte_rx).ok /\ state.tag = "WaitForFooter"
            /\ Head(byte_rx).v # 0)
        => /\ Sends(MsgMissingFooter)
           /\ state' = Recover
           /\ (frame_src = "init" /\ rx_since_header = OnesTimes(23)
                 /\ Head(byte_rx).v = 1 /\ ~emitted)
                => (result_tx' = << MsgMissingFooter >> /\ emitted')
      ]_vars

\* 0x0F and 24 bytes 0x01 were processed from the initial state
C8_Witness ==
    /\ frame_src = "init"
    /\ rx_since_header = OnesTimes(24)
    /\ state = Recover
    /\ emitted
    /\ result_tx = << MsgMissingFooter >>

(***************************************************************************)
(* C9                                                                      *)
(***************************************************************************)
\* C9: in every decoder state, dequeuing an item that carries a transport
\* error e emits Err(ByteReadError(e)) and leaves the decoder in Recover; the
\* error-free bytes that follow, up to the next 0x00, are discarded without
\* any emission.
C9_TransportError ==
    [][ DecoderStep
        => /\ ~Head(byte_rx).ok
                => (Sends(MsgByteReadError(Head(byte_rx).v)) /\ state' = Recover)
           /\ (Head(byte_rx).ok /\ state.tag = "Recover")
                => /\ result_tx' = result_tx
                   /\ current_message' = current_message
                   /\ state'.tag = (IF Head(byte_rx).v = 0 THEN "WaitForHeader" ELSE "Recover")
      ]_vars

\* a transport error after the header and 10 payload bytes was reported, and
\* the decoder is in Recover
C9_Witness ==
    /\ Len(rx_since_header) = 10
    /\ state = Recover
    /\ result_tx # <<>> /\ result_tx[1].kind = "ByteReadError" /\ result_tx[1].e = 2

(***************************************************************************)
(* C11  (SpecDecode)                                                       *)
(***************************************************************************)
\* bit n of the little-endian bitstream the 16 values make, 11 bits each
ValuesBit(values, n) == (values[(n \div 11) + 1] \div Pow2(n % 11)) % 2

RECURSIVE PackByte(_, _, _)
\* the value of bits first, first + 1, ... (width of them) of that bitstream
PackByte(values, first, width) ==
    IF width = 0 THEN 0
    ELSE ValuesBit(values, first) + 2 * PackByte(values, first + 1, width - 1)

Repack(values) == [j \in 1..CHANNEL_BYTE_COUNT |-> PackByte(values, 8 * (j - 1), 8)]

\* C11: for every 22-byte payload, decode_channels sets channel k (k in
\* 0..15) to the 11-bit value of bits [11k, 11k+11) of the payload read as a
\* little-endian bitstream; every value lies in 0..2047 and repacking the 16
\* values reproduces the 22 payload bytes.
C11_DecodeChannels ==
    (state.tag = "WaitForFooter" /\ Len(rx_since_header) = 1 + CHANNEL_BYTE_COUNT)
    => LET payload == SubSeq(rx_since_header, 1, CHANNEL_BYTE_COUNT)
           values == current_message.channels
       IN  /\ \A k \in 1..CHANNEL_AMOUNT :
                /\ values[k] = FieldValue(payload, 11 * (k - 1), 11)
                /\ values[k] \in 0..2047
           /\ Repack(values) = payload

\* a payload with a single clear bit (bit 0) was decoded: channel 0 is 2046
\* and channel 2, which takes its bits from three bytes, is 2047
C11_Witness ==
    /\ state.tag = "WaitForFooter"
    /\ rx_since_header = Append(OneCold(0), 3)
    /\ current_message.channels[1] = 2046
    /\ current_message.channels[3] = 2047

(***************************************************************************)
(* C12  (SpecFrame)                                                        *)
(***************************************************************************)
RECURSIVE SumWithSeparators(_, _)
\* the sum of (300 + d_k) over the first i pulses
SumWithSeparators(timings, i) ==
    IF i = 0 THEN 0
    ELSE SumWithSeparators(timings, i - 1) + 300 + timings[i]

\* C12: for every channel vector with all 8 values in [0,1], the PpmFrame
\* returned by from_channels satisfies sum of (300 + d_k) + frame_padding =
\* 22 000, with every d_k in 690..1710 and frame_padding >= 0.
C12_FrameSumsTo22000 ==
    in_channels # <<>>
    => /\ Len(ppm_frame.signal_timings) = 8
       /\ SumWithSeparators(ppm_frame.signal_timings, 8) + ppm_frame.frame_padding = 22000
       /\ \A k \in 1..8 : ppm_frame.signal_timings[k] \in 690..1710
       /\ ppm_frame.frame_padding >= 0

\* every channel at 1.0: the longest pulses and the shortest padding
C12_Witness ==
    /\ in_channels = UniformChannels(<<Pow2(DyadicBits), Pow2(DyadicBits)>>)
    /\ ppm_frame.signal_timings = [k \in 1..8 |-> 1710]
    /\ ppm_frame.frame_padding = 5920

(***************************************************************************)
(* C13  (SpecFrame)                                                        *)
(***************************************************************************)
\* C13 (as stated): from_channels on [0.0, 0.5, 1.0, 0.25, 0.75, 0.0, 1.0,
\* 0.5] returns pulses [690, 1200, 1710, 945, 1457, 690, 1710, 1200] and
\* frame padding 9998.
C13_ScenarioAsStated ==
    in_channels = MixedChannels
    => /\ ppm_frame.signal_timings = <<690, 1200, 1710, 945, 1457, 690, 1710, 1200>>
       /\ ppm_frame.frame_padding = 9998

\* C13 (amended): it returns pulses [690, 1200, 1710, 945, 1455, 690, 1710,
\* 1200] and frame padding 10 000.
C13_ScenarioAmended ==
    in_channels = MixedChannels
    => /\ ppm_frame.signal_timings = <<690, 1200, 1710, 945, 1455, 690, 1710, 1200>>
       /\ ppm_frame.frame_padding = 10000

C13_Witness ==
    /\ in_channels = MixedChannels
    /\ ppm_frame.signal_timings[5] = 1455

(***************************************************************************)
(* C14  (SpecFrame)                                                        *)
(***************************************************************************)
\* n / d rounded to the nearest integer, halves upwards (n >= 0, d > 0)
RoundDiv(n, d) == (2 * n + d) \div (2 * d)

\* C14: for every channel value c in [0,1] the pulse duration computed by
\* from_channels equals 690 + round(1020 * c): the product is rounded to the
\* nearest integer, not truncated.
C14_PulseIsRounded ==
    in_channels # <<>>
    => \A k \in 1..8 :
        ppm_frame.signal_timings[k]
            = 690 + RoundDiv(1020 * in_channels[k][1], in_channels[k][2])

(***************************************************************************)
(* C15                                                                     *)
(***************************************************************************)
\* C15: in WaitForHeader every error-free byte other than 0x0F (0x00
\* included) causes exactly one emission, Err(MissingHeader), and moves the
\* decoder to Recover; 0x0F moves it to Channel with an empty buffer and
\* emits nothing.
C15_WaitForHeader ==
    [][ (DecoderStep /\ Head(byte_rx).ok /\ state.tag = "WaitForHeader")
        => IF Head(byte_rx).v = 15
           THEN state' = Channel(<<>>) /\ EmitsNothing
           ELSE Sends(MsgMissingHeader) /\ state' = Recover
      ]_vars

\* a stray 0x00 was the first byte the decoder saw
C15_Witness ==
    /\ tx_frames = 0 /\ glitches = 1
    /\ state = Recover
    /\ result_tx = << MsgMissingHeader >>

(***************************************************************************)
(* C16                                                                     *)
(***************************************************************************)
\* C16: the Channel payload buffer never holds more than 22 bytes, a byte is
\* pushed onto it only when it holds fewer than 22, process() never returns
\* VecFull, and WaitForFooter is entered only after exactly 22 payload bytes
\* and 1 flags byte were consumed since the header.
C16_BufferNeverOverflows ==
    /\ [](/\ state.tag = "Channel" => Len(state.bytes) <= 22
          /\ ret.kind # "VecFull")
    /\ [][ (DecoderStep /\ Head(byte_rx).ok)
            => /\ state.tag = "Channel"
                    => IF Len(state.bytes) < 22
                       THEN /\ state' = Channel(Append(state.bytes, Head(byte_rx).v))
                            /\ EmitsNothing
                       ELSE /\ state' = WaitForFooter
                            /\ EmitsNothing
               /\ state' = WaitForFooter
                    => /\ state.tag = "Channel" /\ Len(state.bytes) = 22
                       /\ rx_since_header' = Append(state.bytes, Head(byte_rx).v)
          ]_vars

\* the buffer is full: 22 payload bytes, the flags byte is next
C16_Witness ==
    /\ state.tag = "Channel"
    /\ Len(state.bytes) = 22
    /\ rx_since_header = state.bytes

(***************************************************************************)
(* C17  (SpecCppm)                                                         *)
(***************************************************************************)
\* C17: every on_timer call toggles the line: the pin is low after the
\* first, third, ... call and high after the second, fourth, ...; is_low
\* always tells whether the pin is low; and every low pulse is loaded into
\* the timer with exactly 300 us.
C17_PinAlternates ==
    /\ pin = (IF calls % 2 = 1 THEN "low" ELSE "high")
    /\ is_low = (pin = "low")
    /\ pin = "low" => timer = 300

\* the separator before the second channel pulse
C17_Witness ==
    /\ calls = 3 /\ pin = "low" /\ is_low /\ timer = 300 /\ index = 1

(***************************************************************************)
(* C18  (SpecCppm)                                                         *)
(***************************************************************************)
\* C18: the index stays within 0..8 and signal_timings[index] is read only
\* when index < 8; the index goes up by exactly 1 on each channel high pulse
\* and is reset to 0 only on the call that starts the frame-padding pulse.
C18_IndexBounds ==
    /\ [](index \in 0..8)
    /\ [][ calls' = calls + 1
            => /\ is_low
                    => IF index < 8
                       THEN /\ timer' = current_frame.signal_timings[index + 1]
                            /\ last_kind' = "chan"
                            /\ index' = index + 1
                       ELSE /\ timer' = current_frame.frame_padding
                            /\ last_kind' = "pad"
                            /\ index' = 0
               /\ ~is_low => (index' = index /\ last_kind' = "low")
               /\ index' < index => (index = 8 /\ last_kind' = "pad")
          ]_vars

\* the second frame has played its eight channel pulses
C18_Witness ==
    /\ n_pad = 1 /\ index = 8 /\ is_low /\ last_kind = "low"

(***************************************************************************)
(* C19  (SpecStream)                                                       *)
(***************************************************************************)
FatalKinds == {"ResultTxFull", "VecFull"}

\* C19: with no producer enqueuing during the call, process() terminates
\* after dequeuing at most the bytes present in the input channel (every
\* step of a call is a dequeue or its return, and a call dequeues no more
\* than call_avail items); it consumes them in strict FIFO order; when it
\* returns Ok(()) the input channel is empty; when it returns a fatal error
\* the bytes after the one that triggered it remain in the input channel
\* unread.
C19_ProcessDrainsFifo ==
    /\ [](/\ byte_rx = [i \in 1..Len(byte_rx) |-> script[Consumed + i]]
          /\ state.tag \in {"Channel", "WaitForFooter"}
                => \A i \in 1..Len(rx_since_header) :
                     script[Consumed - Len(rx_since_header) + i]
                        = ByteOk(rx_since_header[i])
          /\ call_clean => (Consumed - call_start) \in 0..call_avail)
    /\ [][ /\ DecoderStep => Consumed' = Consumed + 1
           /\ (ret' = RetOk /\ ret # RetOk)
                => /\ byte_rx' = <<>>
                   /\ call_clean' => Consumed' = call_start' + call_avail'
           /\ (DecoderStep /\ ret'.kind \in FatalKinds /\ call_clean')
                => byte_rx' = SubSeq(script, Consumed' + 1, call_start' + call_avail')
         ]_vars

\* a call that found two items returned ResultTxFull on the first and left
\* the second in the input channel
C19_Witness ==
    /\ ret.kind = "ResultTxFull"
    /\ call_clean /\ call_avail = 2
    /\ Consumed = call_start + 1
    /\ Len(byte_rx) = 1

(***************************************************************************)
(* C20  (SpecStream)                                                       *)
(***************************************************************************)
\* C20: for every input stream, the items emitted and the decoder state are
\* the same however the stream is split across process() calls and however
\* the enqueues interleave with them, as long as no emission finds the
\* output channel full: they are those of the run that calls process()
\* after each single item, the consumer draining the output channel.
C20_SplitIndependent ==
    ~overflowed
    => LET run == feed(NewDecoder, SubSeq(script, 1, Consumed), <<>>)
       IN  /\ sent = run.out
           /\ state = run.self.state
           /\ current_message = run.self.current_message
           /\ failsafe = run.self.failsafe

\* a whole stream went through, two or more messages came out, and the last
\* call was running while the UART enqueued
C20_Witness ==
    /\ ~overflowed /\ ~call_clean
    /\ pos = Len(script) /\ byte_rx = <<>> /\ ret = RetOk
    /\ Len(sent) >= 2
    /\ sent[Len(sent)].kind = "Ok"

====
